---- MODULE Spec2Model ----
(***************************************************************************)
(* Verification model of the finance-tracker sync-detect-summarize-notify  *)
(* pipeline: the retry loop of get_llm_response (src/src/llm.rs), the      *)
(* notification fan-out of dispatch_notifications                         *)
(* (src/src/notifications.rs), the persisted cache (src/src/cache.rs) and  *)
(* the orchestrator that sequences them.                                   *)
(***************************************************************************)
EXTENDS Integers, Sequences, FiniteSets, TLC

(***************************************************************************)
(* Unsigned 64-bit integers.  delay_ms is a u64 (it is passed to           *)
(* Duration::from_millis); its values exceed the range of the model        *)
(* checker's integers, so a u64 is kept as four 16-bit limbs, least        *)
(* significant first.                                                      *)
(***************************************************************************)
LimbBase == 2^16

\* the u64 whose value is the small natural n (n < 2^32)
U64(n) == <<n % LimbBase, n \div LimbBase, 0, 0>>

\* carry out of limb i when x is doubled (i = 0 is the carry into limb 1)
DoubleCarry(x, i) ==
  LET RECURSIVE C(_)
      C(k) == IF k = 0 THEN 0 ELSE (x[k] * 2 + C(k - 1)) \div LimbBase
  IN  C(i)

\* x * 2 in u64 arithmetic (the result modulo 2^64)
U64Double(x) == [i \in 1..4 |-> (x[i] * 2 + DoubleCarry(x, i - 1)) % LimbBase]

\* TRUE iff x * 2 does not fit in 64 bits
U64DoubleOverflows(x) == DoubleCarry(x, 4) # 0

\* 2^k for small k
Pow2(k) ==
  LET RECURSIVE P(_)
      P(j) == IF j = 0 THEN 1 ELSE 2 * P(j - 1)
  IN  P(k)

\* n * 2^k as a u64, computed in closed form by placing n at bit k
\* (n < 2^15, k < 48)
U64Shl(n, k) ==
  LET q == k \div 16
      v == n * Pow2(k % 16)
  IN  [i \in 1..4 |-> IF i = q + 1 THEN v % LimbBase
                      ELSE IF i = q + 2 THEN v \div LimbBase
                      ELSE 0]

(***************************************************************************)
(* Values                                                                  *)
(***************************************************************************)
None == "None"

\* summary texts a chat completion may carry
Texts == {"", "summary"}

\* bounds of the model
MaxChoices == 2

\* the "choices" arrays of a response body
ChoiceLists == UNION {[1..n -> Texts] : n \in 0..MaxChoices}

\* A response body: valid JSON or not; when valid, whether every required
\* field of LLMChatResponse (id, object, created, model, provider, choices,
\* usage) is present with its type, and the choices it carries.
Bodies ==
  {[json |-> FALSE, complete |-> FALSE, choices |-> <<>>]} \cup
  [json : {TRUE}, complete : BOOLEAN, choices : ChoiceLists]

\* The outcome of client.post(..).send().await: a transport error, or a
\* response with an HTTP status and a body.
HttpStatuses == {200, 500}

LLMReplies ==
  {[net |-> "err", status |-> 0, body |-> [json |-> FALSE, complete |-> FALSE, choices |-> <<>>]]}
  \cup [net : {"ok"}, status : HttpStatuses, body : Bodies]

\* serde_json::from_str::<LLMChatResponse>(&resp_text)
from_str(body) ==
  IF body.json /\ body.complete
    THEN [ok |-> TRUE, choices |-> body.choices]
    ELSE [ok |-> FALSE, choices |-> <<>>]

(***************************************************************************)
(* Settings (src/src/settings.rs).  An Option<String> environment value is *)
(* None, the empty string, or a non-empty string.  twilio_to_phones is     *)
(* kept as the list of tokens that split(',') yields: a string without a   *)
(* comma, the empty string included, yields one token, so the list is     *)
(* never empty and the empty list stands for None.                         *)
(***************************************************************************)
MaxPhones == 2

OptStr == {None, "", "set"}

PhoneTokens == {"", "p1", "p2"}

NoPhones == <<>>

PhoneLists == UNION {[1..n -> PhoneTokens] : n \in 1..MaxPhones}

NtfyServers == {"", "https://my.ntfy"}

FullTwilio == [twilio_account_sid |-> "set", twilio_auth_token |-> "set",
               twilio_from_phone |-> "set", twilio_to_phones |-> <<"p1">>]

FullMailer == [mailer_url |-> "set", mailer_from |-> "set", mailer_to |-> "set"]

\* the Twilio part of Settings: every recipient list with the other fields set,
\* and every single field missing or empty
TwilioSettings ==
  {[FullTwilio EXCEPT !.twilio_to_phones = l] : l \in PhoneLists} \cup
  {[FullTwilio EXCEPT ![f] = v] :
     f \in {"twilio_account_sid", "twilio_auth_token", "twilio_from_phone"},
     v \in OptStr} \cup
  {[FullTwilio EXCEPT !.twilio_to_phones = NoPhones]}

\* mailer_to holding a comma-separated list of two addresses
TwoRecipients == "r1,r2"

\* the mailer part of Settings: every single field missing or empty, and a
\* mailer_to that lists two addresses
MailerSettings ==
  {[FullMailer EXCEPT ![f] = v] :
     f \in {"mailer_url", "mailer_from", "mailer_to"}, v \in OptStr} \cup
  {[FullMailer EXCEPT !.mailer_to = TwoRecipients]}

NtfySettings == [ntfy_server : NtfyServers, ntfy_topic : OptStr]

SettingsSpace == [twilio : TwilioSettings, mailer : MailerSettings, ntfy : NtfySettings]

NotificationType == {"Sms", "Email", "Ntfy"}

\* args.rs: default_value = "sms,email,ntfy"
default_notifications == <<"Sms", "Email", "Ntfy">>

\* the values of --notifications: lists of distinct channels
NotificationLists ==
  {l \in UNION {[1..n -> NotificationType] : n \in 0..3} :
     \A i, j \in DOMAIN l : i # j => l[i] # l[j]}

\* pub const fn has_twilio_settings / has_mailer_settings / has_ntfy_settings
has_twilio_settings(settings) ==
  /\ settings.twilio.twilio_to_phones # NoPhones
  /\ settings.twilio.twilio_account_sid # None
  /\ settings.twilio.twilio_auth_token # None
  /\ settings.twilio.twilio_from_phone # None

has_mailer_settings_UrlOnly(settings) == settings.mailer.mailer_url # None

has_mailer_settings(settings) ==
  /\ settings.mailer.mailer_to # None
  /\ settings.mailer.mailer_url # None
  /\ settings.mailer.mailer_from # None

has_ntfy_settings(settings) == settings.ntfy.ntfy_topic # None

(***************************************************************************)
(* The send operations.  Each returns the physical sends it attempted      *)
(* (log) and whether it returned Ok.                                       *)
(***************************************************************************)
\* what one HTTP/SMTP submission can end as: a success status, a non-success
\* status, or a transport error
SendOutcomes == {"ok", "status", "err"}

\* send_ntfy_notification: one POST of the text to {server}/{topic} or
\* {server}/{topic}-warning
ntfy_url_NoSuffix(settings, notification_type) ==
  [server |-> IF settings.ntfy.ntfy_server = "" THEN "https://ntfy.sh"
              ELSE settings.ntfy.ntfy_server,
   topic  |-> settings.ntfy.ntfy_topic,
   suffix |-> ""]

ntfy_url_Swapped(settings, notification_type) ==
  [server |-> IF settings.ntfy.ntfy_server = "" THEN "https://ntfy.sh"
              ELSE settings.ntfy.ntfy_server,
   topic  |-> settings.ntfy.ntfy_topic,
   suffix |-> IF notification_type = "Warning" THEN "" ELSE "-warning"]

ntfy_url(settings, notification_type) ==
  [server |-> IF settings.ntfy.ntfy_server = "" THEN "https://ntfy.sh"
              ELSE settings.ntfy.ntfy_server,
   topic  |-> settings.ntfy.ntfy_topic,
   suffix |-> IF notification_type = "Warning" THEN "-warning" ELSE ""]

send_ntfy_notification(settings, text, notification_type, o) ==
  [log |-> <<[ch |-> "Ntfy", to |-> ntfy_url(settings, notification_type),
              body |-> text, ok |-> (o = "ok")]>>,
   ok  |-> (o = "ok")]

\* .parse() into a lettre Mailbox: one address; neither the empty string nor
\* a list of addresses is a mailbox
parses_as_mailbox(s) == s \notin {"", TwoRecipients}

\* send_email: the sender and recipient must parse as mailboxes and the SMTP
\* URL as a URL (an empty string does not) before the one message is submitted
send_email(settings, text, o) ==
  IF \/ ~parses_as_mailbox(settings.mailer.mailer_from)
     \/ ~parses_as_mailbox(settings.mailer.mailer_to)
     \/ settings.mailer.mailer_url = ""
    THEN [log |-> <<>>, ok |-> FALSE]
    ELSE [log |-> <<[ch |-> "Email", to |-> settings.mailer.mailer_to,
                     body |-> text, ok |-> (o = "ok")]>>,
          ok  |-> (o = "ok")]

\* send_twilio_sms: one POST per token of twilio_to_phones, in order; os[i] is
\* the outcome of the i-th POST.  The first POST that does not succeed returns
\* the error from inside the loop.
sms_attempted(phones, os) ==
  IF \E i \in DOMAIN phones : os[i] # "ok"
    THEN CHOOSE i \in DOMAIN phones :
           /\ os[i] # "ok"
           /\ \A j \in 1..(i - 1) : os[j] = "ok"
    ELSE Len(phones)

send_twilio_sms(settings, text, os) ==
  LET phones == settings.twilio.twilio_to_phones
      n      == sms_attempted(phones, os)
  IN  [log |-> [i \in 1..n |-> [ch |-> "Sms", to |-> phones[i], body |-> text,
                                ok |-> (os[i] = "ok")]],
       ok  |-> \A i \in DOMAIN phones : os[i] = "ok"]

(***************************************************************************)
(* The cache (src/src/cache.rs).  An Option is the empty sequence (None)   *)
(* or a one-element sequence (Some).  Account maps are functions from a    *)
(* set of account ids.                                                     *)
(***************************************************************************)
Some(x) == <<x>>

NoneOpt == <<>>

\* Cache::default()
DefaultCache == [accounts |-> NoneOpt, last_successful_message |-> NoneOpt]

\* the account map of a cache: None reads as the empty map
accounts_of(c) == IF c.accounts = NoneOpt THEN <<>> ELSE c.accounts[1]

\* serde_json::to_writer(file, &cache): the JSON document written.  A Decimal
\* is written as a JSON string, an Option as null or the value.
to_writer_NoTimestamp(c) ==
  [accounts |-> IF c.accounts = NoneOpt THEN NoneOpt
                ELSE Some([id \in DOMAIN c.accounts[1] |->
                       [balance      |-> [str |-> c.accounts[1][id].balance],
                        balance_date |-> c.accounts[1][id].balance_date]]),
   last_successful_message |-> NoneOpt]

to_writer(c) ==
  [accounts |-> IF c.accounts = NoneOpt THEN NoneOpt
                ELSE Some([id \in DOMAIN c.accounts[1] |->
                       [balance      |-> [str |-> c.accounts[1][id].balance],
                        balance_date |-> c.accounts[1][id].balance_date]]),
   last_successful_message |-> c.last_successful_message]

\* serde_json::from_reader(file): the Cache a JSON document deserializes to
from_reader_DropsTimestamp(doc) ==
  [accounts |-> IF doc.accounts = NoneOpt THEN NoneOpt
                ELSE Some([id \in DOMAIN doc.accounts[1] |->
                       [balance      |-> doc.accounts[1][id].balance.str,
                        balance_date |-> doc.accounts[1][id].balance_date]]),
   last_successful_message |-> NoneOpt]

from_reader(doc) ==
  [accounts |-> IF doc.accounts = NoneOpt THEN NoneOpt
                ELSE Some([id \in DOMAIN doc.accounts[1] |->
                       [balance      |-> doc.accounts[1][id].balance.str,
                        balance_date |-> doc.accounts[1][id].balance_date]]),
   last_successful_message |-> doc.last_successful_message]

\* The cache file: absent, holding a complete JSON document, or holding an
\* empty or partial document (after File::create truncated it and before
\* to_writer completed).
AbsentFile == [state |-> "absent", doc |-> to_writer(DefaultCache)]

TruncatedFile == [state |-> "truncated", doc |-> to_writer(DefaultCache)]

\* read_cache
read_cache_AbsentFails(file) ==
  IF file.state \in {"absent", "truncated"} THEN [ok |-> FALSE, cache |-> DefaultCache]
  ELSE [ok |-> TRUE, cache |-> from_reader(file.doc)]

read_cache_AlwaysDefault(file) ==
  IF file.state = "truncated" THEN [ok |-> FALSE, cache |-> DefaultCache]
  ELSE [ok |-> TRUE, cache |-> DefaultCache]

read_cache(file) ==
  IF file.state = "absent" THEN [ok |-> TRUE, cache |-> DefaultCache]
  ELSE IF file.state = "truncated" THEN [ok |-> FALSE, cache |-> DefaultCache]
  ELSE [ok |-> TRUE, cache |-> from_reader(file.doc)]

(***************************************************************************)
(* get_llm_response: retry loop parameters                                 *)
(***************************************************************************)
\* llm_result while get_llm_response has not returned
NoResult == [ok |-> FALSE, err |-> "pending", text |-> "", status |-> 0]

max_retries == 50
initial_delay_ms == 500

VARIABLES
  llm_pc,       \* position in get_llm_response: "idle", "loop", "returned"
  attempt,      \* let mut attempt
  delay_ms,     \* let mut delay_ms (u64)
  llm_result,   \* the value returned: NoResult while running
  netCalls,     \* number of client.post(..).send() calls issued
  sleeps,       \* the delays slept, in order
  failures      \* number of failed attempts so far

llmVars == <<llm_pc, attempt, delay_ms, llm_result, netCalls, sleeps, failures>>

VARIABLES
  settings,            \* the Settings read from the environment
  notification_types,  \* args.notifications
  d_pc,                \* position in dispatch_notifications: "idle", "loop", "returned"
  d_idx,               \* index of the notification type the loop is at
  d_result,            \* the value returned: None, "Ok" or "Err"
  d_summary,           \* the summary text handed to dispatch_notifications
  sendLog,             \* the physical sends attempted, in order
  chanLog              \* per processed notification type: Sent, Failed or Skipped

dispVars == <<settings, notification_types, d_pc, d_idx, d_result, d_summary, sendLog, chanLog>>

VARIABLES
  pc,           \* the orchestrator's position in the run
  runs,         \* number of runs started
  now,          \* the current time of this run
  file,         \* the persisted cache file
  fileAtStart,  \* the persisted cache file as it was when this run started
  cache,        \* the Cache read at the start of the run
  period,       \* the billing period <<start, end>> of the run, in days
  fetched,      \* the accounts the bridge returned
  detected,     \* the result of change detection: [changed, updated]
  outcome,      \* how the run ended: [stage, exit]
  writes,       \* number of write_cache calls of this run
  prev          \* the previous run, when it ended Persisted (with its time), TooSoon
                \* or SummaryFailed

pipeVars == <<pc, runs, now, file, fileAtStart, cache, period, fetched, detected,
              outcome, writes, prev>>

pipeVarsButPc == <<runs, now, file, fileAtStart, cache, period, fetched, detected,
                   outcome, writes, prev>>

VARIABLES
  db,           \* the database: the organizations, accounts and transactions tables
  s_pc,         \* position in SyncData::run: "idle", "org", "account", "txn", "done", "failed"
  s_accounts,   \* the accounts the bridge returned to SyncData::run
  s_i,          \* index of the account the loop is at
  s_j,          \* index of the transaction the inner loop is at
  s_runs,       \* number of runs of the task started
  s_log,        \* the from_bridge calls of this run, in order, with their results
  next_uuid     \* number of ids Uuid::new_v4 has generated

syncVars == <<db, s_pc, s_accounts, s_i, s_j, s_runs, s_log, next_uuid>>

VARIABLES
  q_params,     \* an AccountsParams value
  q_result      \* what to_query_string made of it: None before the call

queryVars == <<q_params, q_result>>

vars == <<llmVars, dispVars, pipeVars, syncVars, queryVars>>

\* entry of get_llm_response: the state before the first loop iteration
llm_enter ==
  /\ llm_pc' = "loop"
  /\ attempt' = 0
  /\ delay_ms' = U64(initial_delay_ms)
  /\ llm_result' = NoResult
  /\ netCalls' = 0
  /\ sleeps' = <<>>
  /\ failures' = 0

\* the match on response_result: does this reply break the loop?
reply_breaks(r) == r.net = "ok" /\ from_str(r.body).ok

\* if attempt >= max_retries { return Err(..) }
retries_exhausted_Never(a) == FALSE

retries_exhausted_OffByOne(a) == a > max_retries

retries_exhausted(a) == a >= max_retries

\* delay_ms *= 2
next_delay_Constant(d) == d

next_delay(d) == U64Double(d)

\* One loop iteration whose attempt fails (transport error or a body that does
\* not deserialize): either the terminal error, or sleep and double the delay.
llm_attempt_fails(r) ==
  /\ llm_pc = "loop"
  /\ ~reply_breaks(r)
  /\ attempt' = attempt + 1
  /\ netCalls' = netCalls + 1
  /\ failures' = failures + 1
  /\ IF retries_exhausted(attempt + 1)
       THEN /\ llm_pc' = "returned"
            /\ llm_result' = [ok |-> FALSE, err |-> "Max retries reached", text |-> "",
                             status |-> 0]
            /\ UNCHANGED <<delay_ms, sleeps>>
       ELSE /\ llm_pc' = "loop"
            /\ sleeps' = Append(sleeps, delay_ms)
            /\ delay_ms' = next_delay(delay_ms)
            /\ UNCHANGED llm_result
  /\ UNCHANGED <<dispVars, pipeVars, syncVars, queryVars>>

\* after the loop: llm_response.choices.first()
first_choice(choices, status) ==
  IF Len(choices) > 0
    THEN [ok |-> TRUE, err |-> "", text |-> choices[1], status |-> status]
    ELSE [ok |-> FALSE, err |-> "No choices found in LLM response", text |-> "",
          status |-> status]

\* One loop iteration whose body deserializes: break parsed_response, and the
\* code after the loop runs to the return without suspending.
llm_attempt_parses(r) ==
  /\ llm_pc = "loop"
  /\ reply_breaks(r)
  /\ attempt' = attempt + 1
  /\ netCalls' = netCalls + 1
  /\ llm_result' = first_choice(from_str(r.body).choices, r.status)
  /\ llm_pc' = "returned"
  /\ UNCHANGED <<delay_ms, sleeps, failures>>
  /\ UNCHANGED <<dispVars, pipeVars, syncVars, queryVars>>

get_llm_response ==
  \/ \E r \in LLMReplies : llm_attempt_fails(r)
  \/ \E r \in LLMReplies : llm_attempt_parses(r)

(***************************************************************************)
(* dispatch_notifications: the loop over notification_types.  Every send   *)
(* is followed by `?`, so the first Err returns from the function.         *)
(***************************************************************************)
\* entry of dispatch_notifications with the summary text; an empty list of
\* notification types falls through the loop to Ok(())
dispatch_enter(text) ==
  /\ d_summary' = text
  /\ d_idx' = 1
  /\ chanLog' = <<>>
  /\ IF notification_types = <<>>
       THEN d_pc' = "returned" /\ d_result' = "Ok"
       ELSE d_pc' = "loop" /\ d_result' = None

\* the `?` after a send: does this result leave the function?
returns_early(ok) == ~ok

\* the end of one loop iteration: r is [log, ok] of the send, or skipped
dispatch_iteration(ch, configured, r) ==
  /\ d_pc = "loop"
  /\ notification_types[d_idx] = ch
  /\ sendLog' = (IF configured THEN sendLog \o r.log ELSE sendLog)
  /\ chanLog' = Append(chanLog,
                  [ch |-> ch, res |-> IF ~configured THEN "Skipped"
                                      ELSE IF r.ok THEN "Sent" ELSE "Failed"])
  /\ IF configured /\ returns_early(r.ok)
       THEN d_pc' = "returned" /\ d_result' = "Err" /\ d_idx' = d_idx
       ELSE IF d_idx = Len(notification_types)
         THEN d_pc' = "returned" /\ d_result' = "Ok" /\ d_idx' = d_idx
         ELSE d_pc' = "loop" /\ d_result' = None /\ d_idx' = d_idx + 1
  /\ UNCHANGED <<settings, notification_types, d_summary>>

\* NotificationType::Ntfy => ..
dispatch_ntfy(o) ==
  /\ dispatch_iteration("Ntfy", has_ntfy_settings(settings),
                        send_ntfy_notification(settings, d_summary, "Info", o))
  /\ UNCHANGED <<llmVars, pipeVars, syncVars, queryVars>>

\* NotificationType::Email => ..
dispatch_email(o) ==
  /\ dispatch_iteration("Email", has_mailer_settings(settings),
                        send_email(settings, d_summary, o))
  /\ UNCHANGED <<llmVars, pipeVars, syncVars, queryVars>>

\* NotificationType::Sms => ..
dispatch_sms(os) ==
  /\ dispatch_iteration("Sms", has_twilio_settings(settings),
                        IF has_twilio_settings(settings)
                          THEN send_twilio_sms(settings, d_summary, os)
                          ELSE [log |-> <<>>, ok |-> TRUE])
  /\ UNCHANGED <<llmVars, pipeVars, syncVars, queryVars>>

dispatch_notifications ==
  \/ \E o \in SendOutcomes : dispatch_ntfy(o)
  \/ \E o \in SendOutcomes : dispatch_email(o)
  \/ \E os \in [1..MaxPhones -> SendOutcomes] : dispatch_sms(os)

(***************************************************************************)
(* Change detection and the orchestrator                                   *)
(***************************************************************************)
AccountIds == {"a", "b"}

\* bounds of the model
MaxTime == 3
MaxRuns == 2
MaxBalance == 1

\* the cooldown window, equal to the out-of-sync staleness threshold
cooldown_window == 2

EmptyMap == <<>>

\* the map that agrees with m except that it maps id to v
insert(m, id, v) == [k \in DOMAIN m \cup {id} |-> IF k = id THEN v ELSE m[k]]

\* an account as the bridge returns it, and as the cache keeps it
snapshot(account) == [balance |-> account.balance, balance_date |-> account.balance_date]

\* is this fetched account changed with respect to the cached map?
is_changed_OnlyNew(accounts, account) == account.id \notin DOMAIN accounts

is_changed_BalanceToo(accounts, account) ==
  \/ account.id \notin DOMAIN accounts
  \/ accounts[account.id].balance_date # account.balance_date
  \/ accounts[account.id].balance # account.balance

is_changed(accounts, account) ==
  \/ account.id \notin DOMAIN accounts
  \/ accounts[account.id].balance_date # account.balance_date

\* detect(previous, current): one pass over the fetched accounts
detect_OnlyFetched(previous, current) ==
  [changed |-> \E i \in DOMAIN current : is_changed(accounts_of(previous), current[i]),
   updated |-> IF current = <<>> THEN EmptyMap
               ELSE [id \in {current[i].id : i \in DOMAIN current} |->
                       snapshot(CHOOSE acc \in {current[i] : i \in DOMAIN current} :
                                  acc.id = id)]]

detect(previous, current) ==
  LET RECURSIVE Go(_, _, _)
      Go(i, changed, updated) ==
        IF i > Len(current) THEN [changed |-> changed, updated |-> updated]
        ELSE Go(i + 1,
                changed \/ is_changed(accounts_of(previous), current[i]),
                insert(updated, current[i].id, snapshot(current[i])))
  IN  Go(1, FALSE, accounts_of(previous))

\* accounts with zero balance are filtered out before change detection
nonzero_KeepsAll(accounts) == accounts

nonzero(accounts) == SelectSeq(accounts, LAMBDA acc : acc.balance # 0)

\* an account whose balance timestamp is older than the staleness threshold
is_stale(account, t) == t - account.balance_date > cooldown_window

\* now - cache.last_successful_notification < cooldown_window
too_soon(c, t) ==
  /\ c.last_successful_message # NoneOpt
  /\ t - c.last_successful_message[1] < cooldown_window

\* validate_billing_period(start, end), days counted from an epoch
validate_billing_period_OffByOne(start, end) ==
  IF start > end THEN "Start date cannot be after end date"
  ELSE IF end - start >= 90 THEN "Billing period cannot exceed 90 days"
  ELSE "Ok"

validate_billing_period(start, end) ==
  IF start > end THEN "Start date cannot be after end date"
  ELSE IF end - start > 90 THEN "Billing period cannot exceed 90 days"
  ELSE "Ok"

\* the billing periods a run may be started with
Periods == {<<0, 30>>, <<0, 91>>, <<1, 0>>}

\* the account lists the bridge may return: at most one account per id of
\* ids, in id order, with balance timestamps up to t
AccountsOver(ids, t) ==
  LET one(id) == [id : {id}, balance : 0..MaxBalance, balance_date : 0..t]
      a == IF "a" \in ids THEN {<<x>> : x \in one("a")} ELSE {}
      b == IF "b" \in ids THEN {<<x>> : x \in one("b")} ELSE {}
  IN  {<<>>} \cup a \cup b \cup {x \o y : x \in a, y \in b}

\* the accounts of the pipeline runs
PipelineIds == {"a"}

NoDetection == [changed |-> FALSE, updated |-> EmptyMap]

NoOutcome == [stage |-> "running", exit |-> "none"]

NoPrev == [now |-> 0, fetched |-> <<>>, outcome |-> NoOutcome,
           detected |-> NoDetection, fileAtStart |-> AbsentFile]

\* the per-call state of get_llm_response and dispatch_notifications before
\* they are entered
llm_idle ==
  /\ llm_pc' = "idle"
  /\ attempt' = 0
  /\ delay_ms' = U64(initial_delay_ms)
  /\ llm_result' = NoResult
  /\ netCalls' = 0
  /\ sleeps' = <<>>
  /\ failures' = 0

dispatch_idle ==
  /\ d_pc' = "idle"
  /\ d_idx' = 1
  /\ d_result' = None
  /\ d_summary' = None
  /\ sendLog' = <<>>
  /\ chanLog' = <<>>

\* the prior state a run works from, given what read_cache returned: a cache
\* that cannot be read gives no prior-state knowledge
prior_state(r) == IF r.ok THEN r.cache ELSE DefaultCache

\* does a failed cache read end the run?  The run degrades to "everything
\* changed" instead.
read_failure_fatal_Aborts(r) == ~r.ok

read_failure_fatal(r) == FALSE

\* Idle: a run starts.  The cache is read once; a cache that cannot be read
\* gives no prior-state knowledge.
run_start ==
  /\ pc \in {"Idle", "Done", "Failed"}
  /\ runs < MaxRuns
  /\ runs' = runs + 1
  /\ \E t \in now..MaxTime : now' = t
  /\ \E p \in Periods : period' = p
  /\ cache' = prior_state(read_cache(file))
  /\ fileAtStart' = file
  /\ prev' = (IF outcome.stage = "Persisted"
               THEN [now |-> now, fetched |-> fetched, outcome |-> outcome,
                     detected |-> detected, fileAtStart |-> fileAtStart]
               ELSE IF outcome.stage \in {"TooSoon", "SummaryFailed"}
               THEN [now |-> 0, fetched |-> fetched, outcome |-> outcome,
                     detected |-> detected, fileAtStart |-> fileAtStart]
               ELSE NoPrev)
  /\ fetched' = <<>>
  /\ detected' = NoDetection
  /\ writes' = 0
  /\ IF read_failure_fatal(read_cache(file))
       THEN pc' = "Failed" /\ outcome' = [stage |-> "CacheReadError", exit |-> "Err"]
       ELSE pc' = "Started" /\ outcome' = NoOutcome
  /\ llm_idle
  /\ dispatch_idle
  /\ UNCHANGED <<queryVars, syncVars, file, settings, notification_types>>

\* validate_billing_period(..)?
validate_Ignored ==
  /\ pc = "Started"
  /\ pc' = "Validated"
  /\ outcome' = (IF validate_billing_period(period[1], period[2]) = "Ok" THEN outcome
                 ELSE [stage |-> "ValidationError", exit |-> "Err"])
  /\ UNCHANGED <<queryVars, syncVars, runs, now, file, fileAtStart, cache, period, fetched, detected, writes, prev>>
  /\ UNCHANGED <<llmVars, dispVars>>

validate ==
  /\ pc = "Started"
  /\ IF validate_billing_period(period[1], period[2]) = "Ok"
       THEN pc' = "Validated" /\ UNCHANGED outcome
       ELSE pc' = "Failed" /\ outcome' = [stage |-> "ValidationError", exit |-> "Err"]
  /\ UNCHANGED <<queryVars, syncVars, runs, now, file, fileAtStart, cache, period, fetched, detected, writes, prev>>
  /\ UNCHANGED <<llmVars, dispVars>>

\* the bridge call fails: the error propagates out of the run
fetch_fails_Continues ==
  /\ pc = "Validated"
  /\ pc' = "Fetched"
  /\ outcome' = [stage |-> "FetchError", exit |-> "Err"]
  /\ UNCHANGED <<queryVars, syncVars, runs, now, file, fileAtStart, cache, period, fetched, detected, writes, prev>>
  /\ UNCHANGED <<llmVars, dispVars>>

fetch_fails ==
  /\ pc = "Validated"
  /\ pc' = "Failed"
  /\ outcome' = [stage |-> "FetchError", exit |-> "Err"]
  /\ UNCHANGED <<queryVars, syncVars, runs, now, file, fileAtStart, cache, period, fetched, detected, writes, prev>>
  /\ UNCHANGED <<llmVars, dispVars>>

\* the bridge call returns accounts
fetch_ok(accounts) ==
  /\ pc = "Validated"
  /\ fetched' = accounts
  /\ pc' = "Fetched"
  /\ UNCHANGED <<queryVars, syncVars, runs, now, file, fileAtStart, cache, period, detected, outcome, writes, prev>>
  /\ UNCHANGED <<llmVars, dispVars>>

fetch == \E accounts \in AccountsOver(PipelineIds, now) : fetch_ok(accounts)

\* the out-of-band warnings of the stale accounts: one POST per stale account
\* to the warning topic when the push channel is configured; os[i] is the
\* outcome of the i-th POST, and a failure is ignored
stale_warnings(accounts, t, os) ==
  LET stale == SelectSeq(accounts, LAMBDA acc : is_stale(acc, t))
  IN  IF has_ntfy_settings(settings)
        THEN [i \in 1..Len(stale) |->
                send_ntfy_notification(settings, "warning", "Warning", os[i]).log[1]]
        ELSE <<>>

\* (NoChange -> Done | Changed): where the run goes after change detection
after_detection_AlwaysChanged(changed) == [pc |-> "Changed", outcome |-> NoOutcome]

after_detection(changed) ==
  IF changed THEN [pc |-> "Changed", outcome |-> NoOutcome]
  ELSE [pc |-> "Done", outcome |-> [stage |-> "NoChange", exit |-> "Ok"]]

\* do the posted warnings abort the run?  The warning is a side alert whose
\* failures do not abort the pipeline.
warnings_abort_OnFailure(posts) == \E i \in DOMAIN posts : ~posts[i].ok

warnings_abort(posts) == FALSE

\* Fetched: zero-balance accounts are dropped, the stale-account warnings are
\* sent, and detect() classifies the run as NoChange or Changed
detect_with(os) ==
  /\ pc = "Fetched"
  /\ sendLog' = sendLog \o stale_warnings(fetched, now, os)
  /\ IF warnings_abort(stale_warnings(fetched, now, os))
       THEN /\ pc' = "Failed"
            /\ outcome' = [stage |-> "WarningError", exit |-> "Err"]
            /\ UNCHANGED detected
       ELSE /\ detected' = detect(cache, nonzero(fetched))
            /\ pc' = after_detection(detected'.changed).pc
            /\ outcome' = after_detection(detected'.changed).outcome
  /\ UNCHANGED <<queryVars, syncVars, runs, now, file, fileAtStart, cache, period, fetched, writes, prev>>
  /\ UNCHANGED <<llmVars, settings, notification_types, d_pc, d_idx, d_result, d_summary, chanLog>>

detect_changes == \E os \in [1..Len(fetched) -> {"ok", "err"}] : detect_with(os)

\* CooldownCheck: within the window the run fails as "too soon"
cooldown_too_soon ==
  /\ pc = "Changed"
  /\ too_soon(cache, now)
  /\ pc' = "Failed"
  /\ outcome' = [stage |-> "TooSoon", exit |-> "Err"]
  /\ UNCHANGED <<queryVars, syncVars, runs, now, file, fileAtStart, cache, period, fetched, detected, writes, prev>>
  /\ UNCHANGED <<llmVars, dispVars>>

\* CooldownCheck: outside the window the summary is requested
cooldown_proceed ==
  /\ pc = "Changed"
  /\ ~too_soon(cache, now)
  /\ pc' = "Summarizing"
  /\ llm_enter
  /\ UNCHANGED <<queryVars, syncVars, pipeVarsButPc>>
  /\ UNCHANGED dispVars

\* the cache this run would persist: the updated map and this run's time
new_cache == [accounts |-> Some(detected.updated), last_successful_message |-> Some(now)]

\* get_llm_response returned Err: the error is printed and the run returns
\* Ok(()); the locals of the call are gone
summary_failed_Persists ==
  /\ pc = "Summarizing"
  /\ llm_pc = "returned"
  /\ ~llm_result.ok
  /\ pc' = "Done"
  /\ outcome' = [stage |-> "SummaryFailed", exit |-> "Ok"]
  /\ file' = [state |-> "written", doc |-> to_writer(new_cache)]
  /\ llm_idle
  /\ UNCHANGED <<queryVars, syncVars, runs, now, fileAtStart, cache, period, fetched, detected, writes, prev>>
  /\ UNCHANGED dispVars

summary_failed_Dispatches ==
  /\ pc = "Summarizing"
  /\ llm_pc = "returned"
  /\ ~llm_result.ok
  /\ pc' = "Dispatching"
  /\ dispatch_enter("")
  /\ llm_idle
  /\ UNCHANGED <<queryVars, syncVars, pipeVarsButPc>>
  /\ UNCHANGED <<settings, notification_types, sendLog>>

summary_failed ==
  /\ pc = "Summarizing"
  /\ llm_pc = "returned"
  /\ ~llm_result.ok
  /\ pc' = "Done"
  /\ outcome' = [stage |-> "SummaryFailed", exit |-> "Ok"]
  /\ llm_idle
  /\ UNCHANGED <<queryVars, syncVars, runs, now, file, fileAtStart, cache, period, fetched, detected, writes, prev>>
  /\ UNCHANGED dispVars

\* get_llm_response returned Ok(text): the text is handed to the dispatcher
summarized ==
  /\ pc = "Summarizing"
  /\ llm_pc = "returned"
  /\ llm_result.ok
  /\ pc' = "Dispatching"
  /\ dispatch_enter(llm_result.text)
  /\ llm_idle
  /\ UNCHANGED <<queryVars, syncVars, pipeVarsButPc>>
  /\ UNCHANGED <<settings, notification_types, sendLog>>

\* is the value dispatch_notifications returned fatal to the run?  A channel
\* send error is recorded and never fatal.
run_fails_on_Err(result) == result = "Err"

run_fails_on(result) == FALSE

\* Dispatched: dispatch_notifications has returned; the run goes on to the
\* cache write-back
dispatched ==
  /\ pc = "Dispatching"
  /\ d_pc = "returned"
  /\ IF run_fails_on(d_result)
       THEN pc' = "Failed" /\ outcome' = [stage |-> "ChannelSendError", exit |-> "Err"]
       ELSE pc' = "Dispatched" /\ UNCHANGED outcome
  /\ UNCHANGED <<queryVars, syncVars, runs, now, file, fileAtStart, cache, period, fetched, detected, writes, prev>>
  /\ UNCHANGED <<llmVars, dispVars>>

\* write_cache, first half: File::create truncates the file (or fails and
\* leaves it alone)
write_create(ok) ==
  /\ pc = "Dispatched"
  /\ d_pc = "returned"
  /\ writes' = writes + 1
  /\ IF ok
       THEN file' = TruncatedFile /\ pc' = "Writing" /\ UNCHANGED outcome
       ELSE file' = file /\ pc' = "Failed"
            /\ outcome' = [stage |-> "CacheError", exit |-> "Err"]
  /\ UNCHANGED <<queryVars, syncVars, runs, now, fileAtStart, cache, period, fetched, detected, prev>>
  /\ UNCHANGED <<llmVars, dispVars>>

\* write_cache, second half: serde_json::to_writer
write_serialize(ok) ==
  /\ pc = "Writing"
  /\ IF ok
       THEN /\ file' = [state |-> "written", doc |-> to_writer(new_cache)]
            /\ pc' = "Done"
            /\ outcome' = [stage |-> "Persisted", exit |-> "Ok"]
       ELSE /\ file' = file
            /\ pc' = "Failed"
            /\ outcome' = [stage |-> "CacheError", exit |-> "Err"]
  /\ UNCHANGED <<queryVars, syncVars, runs, now, fileAtStart, cache, period, fetched, detected, writes, prev>>
  /\ UNCHANGED <<llmVars, dispVars>>

(***************************************************************************)
(* The pipeline: up to MaxRuns runs in sequence, from a first run that     *)
(* finds no cache file.                                                    *)
(***************************************************************************)
ConfiguredAll ==
  [twilio |-> FullTwilio, mailer |-> FullMailer,
   ntfy |-> [ntfy_server |-> "", ntfy_topic |-> "set"]]

ConfiguredNone ==
  [twilio |-> [FullTwilio EXCEPT !.twilio_to_phones = NoPhones],
   mailer |-> [FullMailer EXCEPT !.mailer_to = None],
   ntfy |-> [ntfy_server |-> "", ntfy_topic |-> None]]

\* the orchestrator's variables of a process that has not fetched anything
pipe_fresh(p, n) ==
  /\ pc = p
  /\ runs = n
  /\ now = 0
  /\ file = AbsentFile
  /\ fileAtStart = AbsentFile
  /\ cache = DefaultCache
  /\ period = <<0, 30>>
  /\ fetched = <<>>
  /\ detected = NoDetection
  /\ outcome = NoOutcome
  /\ writes = 0
  /\ prev = NoPrev

\* AccountsParams::new(): every field None
NoParams ==
  [start_date |-> NoneOpt, end_date |-> NoneOpt, pending |-> NoneOpt,
   account_ids |-> NoneOpt, balances_only |-> NoneOpt]

query_fresh ==
  /\ q_params = NoParams
  /\ q_result = NoneOpt

\* the sync task has not run: the tables are empty
NoTables == [organizations |-> {}, accounts |-> {}, transactions |-> {}]

sync_fresh ==
  /\ db = NoTables
  /\ s_pc = "idle"
  /\ s_accounts = <<>>
  /\ s_i = 1
  /\ s_j = 1
  /\ s_runs = 0
  /\ s_log = <<>>
  /\ next_uuid = 0

llm_fresh(p) ==
  /\ llm_pc = p
  /\ attempt = 0
  /\ delay_ms = U64(initial_delay_ms)
  /\ llm_result = NoResult
  /\ netCalls = 0
  /\ sleeps = <<>>
  /\ failures = 0

Init ==
  /\ pipe_fresh("Idle", 0)
  /\ llm_fresh("idle")
  /\ sync_fresh
  /\ query_fresh
  /\ settings = ConfiguredAll
  /\ notification_types = default_notifications
  /\ d_pc = "idle"
  /\ d_idx = 1
  /\ d_result = None
  /\ d_summary = None
  /\ sendLog = <<>>
  /\ chanLog = <<>>

Next ==
  \/ run_start
  \/ validate
  \/ fetch_fails
  \/ fetch
  \/ detect_changes
  \/ cooldown_too_soon
  \/ cooldown_proceed
  \/ get_llm_response
  \/ summary_failed
  \/ summarized
  \/ dispatch_notifications
  \/ dispatched
  \/ \E ok \in BOOLEAN : write_create(ok)
  \/ \E ok \in BOOLEAN : write_serialize(ok)

Spec == Init /\ [][Next]_vars

(***************************************************************************)
(* The retry loop on its own: one call of get_llm_response under every     *)
(* sequence of replies of the text-generation service.                     *)
(***************************************************************************)
InitLLM ==
  /\ pipe_fresh("Summarizing", 1)
  /\ llm_fresh("loop")
  /\ sync_fresh
  /\ query_fresh
  /\ settings = ConfiguredAll
  /\ notification_types = default_notifications
  /\ d_pc = "idle"
  /\ d_idx = 1
  /\ d_result = None
  /\ d_summary = None
  /\ sendLog = <<>>
  /\ chanLog = <<>>

NextLLM == get_llm_response

SpecLLM == InitLLM /\ [][NextLLM]_vars

(***************************************************************************)
(* The dispatcher on its own: one call of dispatch_notifications for every *)
(* configuration, every list of requested channels and every outcome of    *)
(* every send.                                                             *)
(***************************************************************************)
InitDispatch ==
  /\ pipe_fresh("Dispatching", 1)
  /\ llm_fresh("returned")
  /\ sync_fresh
  /\ query_fresh
  /\ settings \in SettingsSpace
  /\ notification_types \in NotificationLists
  /\ d_summary \in Texts
  /\ d_idx = 1
  /\ sendLog = <<>>
  /\ chanLog = <<>>
  /\ IF notification_types = <<>>
       THEN d_pc = "returned" /\ d_result = "Ok"
       ELSE d_pc = "loop" /\ d_result = None

NextDispatch == dispatch_notifications

SpecDispatch == InitDispatch /\ [][NextDispatch]_vars

(***************************************************************************)
(* Change detection on its own: detect applied to every cache and every    *)
(* fetched account list over AccountIds.                                   *)
(***************************************************************************)
DetectMaxBalance == 2
DetectMaxTs == 1

DetectSnapshots == [balance : 1..DetectMaxBalance, balance_date : 0..DetectMaxTs]

DetectMaps == UNION {[ids -> DetectSnapshots] : ids \in SUBSET AccountIds}

DetectCaches ==
  {DefaultCache} \cup
  [accounts : {Some(m) : m \in DetectMaps}, last_successful_message : {NoneOpt}]

DetectFetches ==
  LET one(id) == [id : {id}, balance : 0..DetectMaxBalance, balance_date : 0..DetectMaxTs]
  IN  {<<>>} \cup {<<x>> : x \in one("a") \cup one("b")}
             \cup {<<x, y>> : x \in one("a"), y \in one("b")}
             \cup {<<y, x>> : x \in one("a"), y \in one("b")}

InitDetect ==
  /\ pc = "Fetched"
  /\ runs = 1
  /\ now = 0
  /\ cache \in DetectCaches
  /\ file = (IF cache = DefaultCache THEN AbsentFile
             ELSE [state |-> "written", doc |-> to_writer(cache)])
  /\ fileAtStart = file
  /\ period = <<0, 30>>
  /\ fetched \in DetectFetches
  /\ detected = NoDetection
  /\ outcome = NoOutcome
  /\ writes = 0
  /\ prev = NoPrev
  /\ llm_fresh("idle")
  /\ sync_fresh
  /\ query_fresh
  /\ settings = ConfiguredAll
  /\ notification_types = default_notifications
  /\ d_pc = "idle"
  /\ d_idx = 1
  /\ d_result = None
  /\ d_summary = None
  /\ sendLog = <<>>
  /\ chanLog = <<>>

NextDetect == detect_changes

SpecDetect == InitDetect /\ [][NextDetect]_vars

(***************************************************************************)
(* validate_billing_period on its own: the validation step of a run for    *)
(* every billing period with start and end among the days 0..MaxDay.       *)
(***************************************************************************)
MaxDay == 92

InitValidate ==
  /\ pc = "Started"
  /\ runs = 1
  /\ now = 0
  /\ file = AbsentFile
  /\ fileAtStart = AbsentFile
  /\ cache = DefaultCache
  /\ period \in (0..MaxDay) \X (0..MaxDay)
  /\ fetched = <<>>
  /\ detected = NoDetection
  /\ outcome = NoOutcome
  /\ writes = 0
  /\ prev = NoPrev
  /\ llm_fresh("idle")
  /\ sync_fresh
  /\ query_fresh
  /\ settings = ConfiguredAll
  /\ notification_types = default_notifications
  /\ d_pc = "idle"
  /\ d_idx = 1
  /\ d_result = None
  /\ d_summary = None
  /\ sendLog = <<>>
  /\ chanLog = <<>>

NextValidate == validate

SpecValidate == InitValidate /\ [][NextValidate]_vars

(***************************************************************************)
(* The cache store on its own: write_cache(&cache) called up to MaxWrites  *)
(* times for every Cache value, each call succeeding or failing at either  *)
(* of its two steps.                                                       *)
(***************************************************************************)
MaxWrites == 2

\* the Cache values: accounts and last_successful_message each None or Some
CacheValues ==
  [accounts : {NoneOpt} \cup {Some(m) : m \in DetectMaps},
   last_successful_message : {NoneOpt} \cup {Some(t) : t \in 0..MaxTime}]

\* write_cache(&c) on file f: File::create, then serde_json::to_writer
write_cache(f, c, created, serialized) ==
  IF ~created THEN f
  ELSE IF ~serialized THEN TruncatedFile
  ELSE [state |-> "written", doc |-> to_writer(c)]

cache_store(created, serialized) ==
  /\ pc = "CacheStore"
  /\ writes < MaxWrites
  /\ writes' = writes + 1
  /\ file' = write_cache(file, cache, created, serialized)
  /\ outcome' = (IF created /\ serialized
                   THEN [stage |-> "Persisted", exit |-> "Ok"]
                   ELSE [stage |-> "CacheError", exit |-> "Err"])
  /\ UNCHANGED <<queryVars, syncVars, pc, runs, now, fileAtStart, cache, period, fetched, detected, prev>>
  /\ UNCHANGED <<llmVars, dispVars>>

InitCache ==
  /\ pc = "CacheStore"
  /\ runs = 1
  /\ now = 0
  /\ file = AbsentFile
  /\ fileAtStart = AbsentFile
  /\ cache \in CacheValues
  /\ period = <<0, 30>>
  /\ fetched = <<>>
  /\ detected = NoDetection
  /\ outcome = NoOutcome
  /\ writes = 0
  /\ prev = NoPrev
  /\ llm_fresh("idle")
  /\ sync_fresh
  /\ query_fresh
  /\ settings = ConfiguredAll
  /\ notification_types = default_notifications
  /\ d_pc = "idle"
  /\ d_idx = 1
  /\ d_result = None
  /\ d_summary = None
  /\ sendLog = <<>>
  /\ chanLog = <<>>

NextCache == \E created, serialized \in BOOLEAN : cache_store(created, serialized)

SpecCache == InitCache /\ [][NextCache]_vars

(***************************************************************************)
(* One run on its own, from the state after the cache was read to Done or  *)
(* Failed, for every cache file the run may find.  Every external call and *)
(* every sleep returns, so a step that can be taken is eventually taken.    *)
(***************************************************************************)
\* the cache files a run may find: none, one left by an interrupted write, or
\* one persisted by an earlier run
RunFiles ==
  {AbsentFile, TruncatedFile} \cup
  {[state |-> "written",
    doc |-> to_writer([accounts |-> Some(m), last_successful_message |-> Some(t)])] :
     m \in UNION {[ids -> [balance : 1..MaxBalance, balance_date : 0..MaxTime]] :
                    ids \in SUBSET PipelineIds},
     t \in 0..MaxTime}

InitRun ==
  /\ pc = "Started"
  /\ runs = 1
  /\ now = MaxTime
  /\ file \in RunFiles
  /\ fileAtStart = file
  /\ cache = prior_state(read_cache(file))
  /\ period \in Periods
  /\ fetched = <<>>
  /\ detected = NoDetection
  /\ outcome = NoOutcome
  /\ writes = 0
  /\ prev = NoPrev
  /\ llm_fresh("idle")
  /\ sync_fresh
  /\ query_fresh
  /\ settings = ConfiguredAll
  /\ notification_types = default_notifications
  /\ d_pc = "idle"
  /\ d_idx = 1
  /\ d_result = None
  /\ d_summary = None
  /\ sendLog = <<>>
  /\ chanLog = <<>>

NextRun ==
  \/ validate
  \/ fetch_fails
  \/ fetch
  \/ detect_changes
  \/ cooldown_too_soon
  \/ cooldown_proceed
  \/ get_llm_response
  \/ summary_failed
  \/ summarized
  \/ dispatch_notifications
  \/ dispatched
  \/ \E ok \in BOOLEAN : write_create(ok)
  \/ \E ok \in BOOLEAN : write_serialize(ok)

SpecRun == InitRun /\ [][NextRun]_vars /\ WF_vars(NextRun)

(***************************************************************************)
(* calculate_date_range on its own: the billing period computed from the   *)
(* date range type for every value of today's date over RangeYears years.  *)
(* A date is kept as its day number, day 0 being January 1 of BaseYear.    *)
(***************************************************************************)
BaseYear == 2024
RangeYears == 2

DateRangeType ==
  {"CurrentMonth", "LastMonth", "Last3Months", "CurrentYear", "LastYear", "Custom"}

\* the proleptic Gregorian calendar of chrono::NaiveDate
is_leap(y) == (y % 4 = 0 /\ y % 100 # 0) \/ y % 400 = 0

days_in_year(y) == IF is_leap(y) THEN 366 ELSE 365

days_in_month(y, m) ==
  IF m = 2 THEN (IF is_leap(y) THEN 29 ELSE 28)
  ELSE IF m \in {4, 6, 9, 11} THEN 30
  ELSE 31

\* NaiveDate::from_ymd_opt(y, m, d).unwrap() as a day number
from_ymd(y, m, d) ==
  LET RECURSIVE BeforeYear(_)
      BeforeYear(k) == IF k = BaseYear THEN 0
                       ELSE IF k > BaseYear THEN BeforeYear(k - 1) + days_in_year(k - 1)
                       ELSE BeforeYear(k + 1) - days_in_year(k)
      RECURSIVE BeforeMonth(_)
      BeforeMonth(k) == IF k = 1 THEN 0 ELSE BeforeMonth(k - 1) + days_in_month(y, k - 1)
  IN  BeforeYear(y) + BeforeMonth(m) + d - 1

\* the year, month and day of a day number
ymd(n) ==
  CHOOSE t \in {<<y, m, d>> : y \in (BaseYear - 1)..(BaseYear + RangeYears),
                             m \in 1..12, d \in 1..31} :
    t[3] <= days_in_month(t[1], t[2]) /\ from_ymd(t[1], t[2], t[3]) = n

\* the values of today's date
Todays == 0..(from_ymd(BaseYear + RangeYears, 1, 1) - 1)

\* calculate_date_range(date_range_type, start_date, end_date), today being
\* the date of Local::now()
calculate_date_range(date_range_type, start_date, end_date, today) ==
  LET year  == ymd(today)[1]
      month == ymd(today)[2]
  IN  IF date_range_type = "CurrentMonth"
        THEN [ok |-> TRUE, period |-> <<from_ymd(year, month, 1), today>>]
      ELSE IF date_range_type = "LastMonth"
        THEN LET end == from_ymd(year, month, 1) - 1
             IN  [ok |-> TRUE,
                  period |-> <<from_ymd(ymd(end)[1], ymd(end)[2], 1), end>>]
      ELSE IF date_range_type = "Last3Months"
        THEN LET y  == year - (IF month <= 3 THEN 1 ELSE 0)
                 m0 == (month + 9) % 12
                 m  == IF m0 = 0 THEN 12 ELSE m0
             IN  [ok |-> TRUE, period |-> <<from_ymd(y, m, 1), today>>]
      ELSE IF date_range_type = "CurrentYear"
        THEN [ok |-> TRUE, period |-> <<from_ymd(year, 1, 1), today>>]
      ELSE IF date_range_type = "LastYear"
        THEN [ok |-> TRUE,
              period |-> <<from_ymd(year - 1, 1, 1), from_ymd(year - 1, 12, 31)>>]
      ELSE IF start_date # NoneOpt /\ end_date # NoneOpt
        THEN [ok |-> TRUE, period |-> <<start_date[1], end_date[1]>>]
      ELSE [ok |-> FALSE, period |-> <<0, 0>>]

\* the billing period of a run started without --start-date and --end-date
args_range(date_range_type) ==
  /\ pc = "Args"
  /\ LET r == calculate_date_range(date_range_type, NoneOpt, NoneOpt, now)
     IN  IF r.ok
           THEN period' = r.period /\ pc' = "Started" /\ UNCHANGED outcome
           ELSE /\ pc' = "Failed"
                /\ outcome' = [stage |-> "InvalidArgument", exit |-> "Err"]
                /\ UNCHANGED period
  /\ UNCHANGED <<queryVars, syncVars, runs, now, file, fileAtStart, cache, fetched, detected, writes, prev>>
  /\ UNCHANGED <<llmVars, dispVars>>

InitRange ==
  /\ pc = "Args"
  /\ runs = 1
  /\ now \in Todays
  /\ file = AbsentFile
  /\ fileAtStart = AbsentFile
  /\ cache = DefaultCache
  /\ period = <<0, 0>>
  /\ fetched = <<>>
  /\ detected = NoDetection
  /\ outcome = NoOutcome
  /\ writes = 0
  /\ prev = NoPrev
  /\ llm_fresh("idle")
  /\ sync_fresh
  /\ query_fresh
  /\ settings = ConfiguredAll
  /\ notification_types = default_notifications
  /\ d_pc = "idle"
  /\ d_idx = 1
  /\ d_result = None
  /\ d_summary = None
  /\ sendLog = <<>>
  /\ chanLog = <<>>

NextRange == \E date_range_type \in DateRangeType : args_range(date_range_type)

SpecRange == InitRange /\ [][NextRange]_vars

(***************************************************************************)
(* The SyncData task: the accounts the bridge returned are persisted, for  *)
(* each account its organization, the account, then its transactions.      *)
(* Each from_bridge call runs in one database transaction: it commits or   *)
(* leaves the tables as they were.                                         *)
(***************************************************************************)
MaxSyncs == 2
MaxSyncAccounts == 2
MaxSyncTxns == 2

SyncAccountIds == {"a", "b"}
SyncOrgIds == {"o1", "o2"}
SyncTxnIds == {"t1", "t2"}

\* account.transactions: None, or a list of bridge transactions, each with
\* its own id within the account
SyncTxnLists ==
  {NoneOpt} \cup
  {Some(l) : l \in {m \in UNION {[1..n -> SyncTxnIds] : n \in 0..MaxSyncTxns} :
                      \A i, j \in DOMAIN m : i # j => m[i] # m[j]}}

\* the account lists the bridge may return: accounts with distinct ids
SyncFetches ==
  {l \in UNION {[1..n -> [id : SyncAccountIds, org : SyncOrgIds, transactions : SyncTxnLists]] :
                  n \in 0..MaxSyncAccounts} :
     \A i, j \in DOMAIN l : i # j => l[i].id # l[j].id}

\* Uuid::new_v4().to_string(): the n-th generated id
uuid(n) == "uuid-" \o ToString(n)

\* Entity::find_by_id(id).one(&txn)
find_by_id(table, id) == {r \in table : r.id = id}

\* transactions::ActiveModel::before_save: on insert the id is replaced by a
\* new UUID
before_save(row, is_insert, n) ==
  IF is_insert THEN [row EXCEPT !.id = uuid(n)] ELSE row

\* the transactions of account, in order (none when account.transactions is None)
txns_of(account) ==
  IF account.transactions = NoneOpt THEN <<>> ELSE account.transactions[1]

\* the `?` after each from_bridge call: an Err returns from the task
propagates_Never(ok) == FALSE

propagates(ok) == ~ok

\* where the loops go after the account at index i has been upserted, or its
\* transaction at index j: its next transaction, the next account, or the end
sync_advance(i, j) ==
  IF j <= Len(txns_of(s_accounts[i]))
    THEN [pc |-> "txn", i |-> i, j |-> j]
  ELSE IF i < Len(s_accounts)
    THEN [pc |-> "org", i |-> i + 1, j |-> 1]
  ELSE [pc |-> "done", i |-> i, j |-> 1]

\* SyncData::run up to the loop: bridge.accounts(..) returned the accounts.
\* The task is run again over the same billing data: the bridge returns on
\* every run what it returned on the first.
sync_start(accounts) ==
  /\ s_pc \in {"idle", "done", "failed"}
  /\ s_runs < MaxSyncs
  /\ s_runs > 0 => accounts = s_accounts
  /\ s_runs' = s_runs + 1
  /\ s_accounts' = accounts
  /\ s_log' = <<>>
  /\ s_i' = 1
  /\ s_j' = 1
  /\ s_pc' = (IF accounts = <<>> THEN "done" ELSE "org")
  /\ UNCHANGED <<db, next_uuid>>
  /\ UNCHANGED <<llmVars, dispVars, pipeVars, queryVars>>

\* OrganizationModel::from_bridge(&ctx.db, &account.org).await?
sync_organization(ok) ==
  /\ s_pc = "org"
  /\ LET org == s_accounts[s_i].org
     IN  /\ s_log' = Append(s_log, [call |-> "org", i |-> s_i, j |-> 0, ok |-> ok])
         /\ db' = (IF ok THEN [db EXCEPT !.organizations = @ \cup {org}] ELSE db)
         /\ s_pc' = (IF propagates(ok) THEN "failed" ELSE "account")
  /\ UNCHANGED <<s_accounts, s_i, s_j, s_runs, next_uuid>>
  /\ UNCHANGED <<llmVars, dispVars, pipeVars, queryVars>>

\* AccountModel::from_bridge(&ctx.db, &account).await?  The insert or update
\* fails when the organization it references is not stored (foreign key).
sync_account(ok) ==
  /\ s_pc = "account"
  /\ LET account == s_accounts[s_i]
         done    == ok /\ account.org \in db.organizations
         row     == [id |-> account.id, organization_id |-> account.org]
     IN  /\ s_log' = Append(s_log, [call |-> "account", i |-> s_i, j |-> 0, ok |-> done])
         /\ db' = (IF done
                     THEN [db EXCEPT !.accounts =
                             (@ \ find_by_id(@, account.id)) \cup {row}]
                     ELSE db)
         /\ IF propagates(done)
              THEN s_pc' = "failed" /\ UNCHANGED <<s_i, s_j>>
              ELSE /\ s_pc' = sync_advance(s_i, 1).pc
                   /\ s_i' = sync_advance(s_i, 1).i
                   /\ s_j' = sync_advance(s_i, 1).j
  /\ UNCHANGED <<s_accounts, s_runs, next_uuid>>
  /\ UNCHANGED <<llmVars, dispVars, pipeVars, queryVars>>

\* TransactionModel::from_bridge(&ctx.db, &transaction, &account.id).await?
\* The row found by the bridge id is updated; otherwise a row is inserted,
\* through before_save.  src is the bridge transaction the row was written
\* from (it stands for the row's other columns).
sync_transaction(ok) ==
  /\ s_pc = "txn"
  /\ LET account == s_accounts[s_i]
         id      == txns_of(account)[s_j]
         found   == find_by_id(db.transactions, id)
         created == found = {}
         done    == ok /\ account.id \in {r.id : r \in db.accounts}
         row     == before_save([id |-> id, account_id |-> account.id, src |-> id],
                                created, next_uuid + 1)
     IN  /\ s_log' = Append(s_log, [call |-> "txn", i |-> s_i, j |-> s_j, ok |-> done])
         /\ db' = (IF done
                     THEN [db EXCEPT !.transactions = (@ \ found) \cup {row}]
                     ELSE db)
         /\ next_uuid' = (IF done /\ created THEN next_uuid + 1 ELSE next_uuid)
         /\ IF propagates(done)
              THEN s_pc' = "failed" /\ UNCHANGED <<s_i, s_j>>
              ELSE /\ s_pc' = sync_advance(s_i, s_j + 1).pc
                   /\ s_i' = sync_advance(s_i, s_j + 1).i
                   /\ s_j' = sync_advance(s_i, s_j + 1).j
  /\ UNCHANGED <<s_accounts, s_runs>>
  /\ UNCHANGED <<llmVars, dispVars, pipeVars, queryVars>>

sync_run == \E accounts \in SyncFetches : sync_start(accounts)

sync_organizations == \E ok \in BOOLEAN : sync_organization(ok)

sync_accounts == \E ok \in BOOLEAN : sync_account(ok)

sync_transactions == \E ok \in BOOLEAN : sync_transaction(ok)

InitSync ==
  /\ pipe_fresh("Idle", 0)
  /\ llm_fresh("idle")
  /\ sync_fresh
  /\ query_fresh
  /\ settings = ConfiguredAll
  /\ notification_types = default_notifications
  /\ d_pc = "idle"
  /\ d_idx = 1
  /\ d_result = None
  /\ d_summary = None
  /\ sendLog = <<>>
  /\ chanLog = <<>>

NextSync ==
  \/ sync_run
  \/ sync_organizations
  \/ sync_accounts
  \/ sync_transactions

SpecSync == InitSync /\ [][NextSync]_vars

(***************************************************************************)
(* AccountsParams::to_query_string on its own, for every combination of    *)
(* set and unset parameters.  An entry of the params vector is kept as its *)
(* key and value; the query string joins the formatted entries with "&".   *)
(***************************************************************************)
MaxQueryIds == 2

QueryDates == {0, 1577836800}
QueryIds == {"123", "456"}

AccountsParams ==
  [start_date    : {NoneOpt} \cup {Some(d) : d \in QueryDates},
   end_date      : {NoneOpt} \cup {Some(d) : d \in QueryDates},
   pending       : {NoneOpt} \cup {Some(b) : b \in BOOLEAN},
   account_ids   : {NoneOpt} \cup
                   {Some(l) : l \in UNION {[1..n -> QueryIds] : n \in 0..MaxQueryIds}},
   balances_only : {NoneOpt} \cup {Some(b) : b \in BOOLEAN}]

\* the entries pushed onto the params vector, in order
query_entries_AnySomeFlag(p) ==
  (IF p.start_date # NoneOpt
     THEN <<[key |-> "start-date", value |-> ToString(p.start_date[1])]>> ELSE <<>>)
  \o (IF p.end_date # NoneOpt
        THEN <<[key |-> "end-date", value |-> ToString(p.end_date[1])]>> ELSE <<>>)
  \o (IF p.pending # NoneOpt
        THEN <<[key |-> "pending", value |-> "1"]>> ELSE <<>>)
  \o (IF p.account_ids # NoneOpt
        THEN [i \in DOMAIN p.account_ids[1] |->
                [key |-> "account", value |-> p.account_ids[1][i]]]
        ELSE <<>>)
  \o (IF p.balances_only # NoneOpt
        THEN <<[key |-> "balances-only", value |-> "1"]>> ELSE <<>>)

query_entries(p) ==
  (IF p.start_date # NoneOpt
     THEN <<[key |-> "start-date", value |-> ToString(p.start_date[1])]>> ELSE <<>>)
  \o (IF p.end_date # NoneOpt
        THEN <<[key |-> "end-date", value |-> ToString(p.end_date[1])]>> ELSE <<>>)
  \o (IF p.pending # NoneOpt /\ p.pending[1]
        THEN <<[key |-> "pending", value |-> "1"]>> ELSE <<>>)
  \o (IF p.account_ids # NoneOpt
        THEN [i \in DOMAIN p.account_ids[1] |->
                [key |-> "account", value |-> p.account_ids[1][i]]]
        ELSE <<>>)
  \o (IF p.balances_only # NoneOpt /\ p.balances_only[1]
        THEN <<[key |-> "balances-only", value |-> "1"]>> ELSE <<>>)

\* params.join("&") of the formatted entries
join(entries) ==
  LET RECURSIVE J(_)
      J(k) == IF k > Len(entries) THEN ""
              ELSE (IF k = 1 THEN "" ELSE "&")
                   \o entries[k].key \o "=" \o entries[k].value \o J(k + 1)
  IN  J(1)

to_query_string(p) == [params |-> query_entries(p), query |-> join(query_entries(p))]

accounts_query ==
  /\ q_result = NoneOpt
  /\ q_result' = Some(to_query_string(q_params))
  /\ UNCHANGED q_params
  /\ UNCHANGED <<llmVars, dispVars, pipeVars, syncVars>>

InitQuery ==
  /\ pipe_fresh("Idle", 0)
  /\ llm_fresh("idle")
  /\ sync_fresh
  /\ q_params \in AccountsParams
  /\ q_result = NoneOpt
  /\ settings = ConfiguredAll
  /\ notification_types = default_notifications
  /\ d_pc = "idle"
  /\ d_idx = 1
  /\ d_result = None
  /\ d_summary = None
  /\ sendLog = <<>>
  /\ chanLog = <<>>

NextQuery == accounts_query

SpecQuery == InitQuery /\ [][NextQuery]_vars

(***************************************************************************)
(* Properties                                                              *)
(***************************************************************************)
\* a send of the log that is an out-of-band warning
is_warning(e) == e.ch = "Ntfy" /\ e.to.suffix = "-warning"

\* is channel ch configured under the settings?
configured(ch) ==
  IF ch = "Ntfy" THEN has_ntfy_settings(settings)
  ELSE IF ch = "Email" THEN has_mailer_settings(settings)
  ELSE has_twilio_settings(settings)

\* C1: channel isolation.  When dispatch_notifications has returned, every
\* requested channel has its own result, and the send of every requested,
\* configured channel was invoked, whatever the other channels' sends did.
C1_ChannelIsolation ==
  d_pc = "returned" =>
    \A i \in DOMAIN notification_types :
      \E j \in DOMAIN chanLog :
        /\ chanLog[j].ch = notification_types[i]
        /\ configured(notification_types[i]) => chanLog[j].res \in {"Sent", "Failed"}

\* C2: the cache file is written only after dispatch_notifications was invoked
\* and has returned in the same run, and a run that ends before dispatch
\* (validation error, fetch error, NoChange, too soon, summary failed) leaves
\* the file as it was when the run started.
C2_WriteBackAfterDispatch ==
  /\ (file # fileAtStart \/ writes > 0) => d_pc = "returned"
  /\ outcome.stage \in {"ValidationError", "FetchError", "NoChange", "TooSoon",
                        "SummaryFailed"}
       => file = fileAtStart /\ writes = 0 /\ d_pc = "idle"

C2_Witness ==
  /\ pc = "Done" /\ outcome.stage = "Persisted"
  /\ file # fileAtStart /\ d_pc = "returned"

\* C3: when every attempt fails, exactly max_retries network calls are issued,
\* the result is the terminal error, and no further call is possible.
C3_RetryExhaustion ==
  /\ netCalls <= max_retries
  /\ (llm_pc = "returned" /\ failures = netCalls) =>
       /\ netCalls = max_retries
       /\ ~llm_result.ok /\ llm_result.err = "Max retries reached"
  /\ failures = max_retries => llm_pc = "returned" /\ ~ENABLED get_llm_response

C3_Witness == llm_pc = "returned" /\ failures = max_retries /\ netCalls = max_retries

\* C4: the delay slept after failed attempt n is initial_delay * 2^(n-1),
\* whatever the kind of the failures; every failed attempt before the last
\* possible one is followed by exactly one sleep.
C4_BackoffProgression ==
  /\ \A n \in DOMAIN sleeps : sleeps[n] = U64Shl(initial_delay_ms, n - 1)
  /\ llm_pc = "loop" => Len(sleeps) = failures /\ failures = attempt

C4_Witness ==
  /\ Len(sleeps) = max_retries - 1
  /\ sleeps[1] = U64(500) /\ sleeps[2] = U64(1000) /\ sleeps[3] = U64(2000)

\* C5: a response that deserializes with an empty choices array counts as a
\* failed attempt that is retried: get_llm_response returns an error only when
\* the retries are exhausted, and a summary only from a first choice.
C5_EmptyChoicesRetried ==
  (llm_pc = "returned" /\ ~llm_result.ok) =>
     attempt = max_retries /\ llm_result.err = "Max retries reached"

\* the last successful notification time persisted when the run started
persisted_last == fileAtStart.doc.last_successful_message

\* the run is within the cooldown window of the last successful notification
within_window ==
  /\ fileAtStart.state = "written"
  /\ persisted_last # NoneOpt
  /\ now - persisted_last[1] < cooldown_window

\* C6: a run that detected a change within the cooldown window ends as
\* TooSoon (an error, unlike NoChange) before the summary is requested: no
\* summary call, no dispatch, no cache write.
C6_CooldownSuppression ==
  (detected.changed /\ within_window) =>
    /\ pc \in {"Changed", "Failed"}
    /\ pc = "Failed" => outcome = [stage |-> "TooSoon", exit |-> "Err"]
    /\ llm_pc = "idle" /\ netCalls = 0
    /\ d_pc = "idle" /\ chanLog = <<>>
    /\ \A i \in DOMAIN sendLog : is_warning(sendLog[i])
    /\ writes = 0 /\ file = fileAtStart

C6_Witness ==
  /\ pc = "Failed" /\ outcome.stage = "TooSoon"
  /\ detected.changed /\ within_window /\ now - persisted_last[1] = 1

\* this run fetched the same accounts as the previous run, which notified and
\* persisted, and started before the cooldown window had elapsed
second_run_same_data ==
  /\ runs >= 2
  /\ prev.outcome.stage = "Persisted"
  /\ pc \notin {"Started", "Validated"}
  /\ outcome.stage \notin {"ValidationError", "FetchError"}
  /\ fetched = prev.fetched
  /\ now - prev.now < cooldown_window

\* C7 as stated: the second run sends no notification on any channel and
\* performs no cache write.
C7_Idempotence_AsStated ==
  second_run_same_data => sendLog = <<>> /\ writes = 0 /\ file = fileAtStart

\* C7 amended: the second run requests no summary, does not invoke the
\* dispatcher and writes nothing; the only sends it can make are the
\* stale-account warnings.
C7_Idempotence ==
  second_run_same_data =>
    /\ llm_pc = "idle" /\ netCalls = 0
    /\ d_pc = "idle" /\ chanLog = <<>>
    /\ \A i \in DOMAIN sendLog : is_warning(sendLog[i])
    /\ writes = 0 /\ file = fileAtStart

C7_Witness ==
  /\ second_run_same_data
  /\ pc = "Done" /\ outcome.stage = "NoChange"
  /\ nonzero(fetched) # <<>>

\* the accounts handed to detect in this run
current == nonzero(fetched)

detected_done == pc \in {"Changed", "Done"}

same_timestamp(acc) ==
  /\ acc.id \in DOMAIN accounts_of(cache)
  /\ accounts_of(cache)[acc.id].balance_date = acc.balance_date

\* C8: an account cached with the timestamp it is fetched with is never
\* classified as changed, even when its balance differs: it is not changed by
\* is_changed, and a fetch of such accounts only gives changed = FALSE.
C8_UnchangedTimestampNotChanged ==
  /\ \A i \in DOMAIN current :
       same_timestamp(current[i]) => ~is_changed(accounts_of(cache), current[i])
  /\ (detected_done /\ \A i \in DOMAIN current : same_timestamp(current[i]))
       => ~detected.changed

C8_Witness ==
  /\ detected_done /\ ~detected.changed
  /\ \E i \in DOMAIN current :
       /\ same_timestamp(current[i])
       /\ accounts_of(cache)[current[i].id].balance # current[i].balance

\* C9: changed is TRUE exactly when some fetched account is absent from the
\* cache or has a timestamp different from the cached one.
C9_ChangedIff ==
  detected_done =>
    (detected.changed <=>
       \E i \in DOMAIN current :
          \/ current[i].id \notin DOMAIN accounts_of(cache)
          \/ accounts_of(cache)[current[i].id].balance_date # current[i].balance_date)

C9_Witness ==
  /\ detected_done /\ detected.changed /\ Len(current) = 2
  /\ \E i, j \in DOMAIN current :
       /\ same_timestamp(current[i])
       /\ current[j].id \in DOMAIN accounts_of(cache)
       /\ ~same_timestamp(current[j])

\* C10: the updated map has every cached id and every fetched id; a fetched
\* account maps to its fetched snapshot, a cached account that was not fetched
\* keeps its cached snapshot; the cache handed to detect is not modified.
C10_UpdatedMap ==
  detected_done =>
    LET ids == {current[i].id : i \in DOMAIN current}
        old == accounts_of(cache)
    IN  /\ DOMAIN detected.updated = DOMAIN old \cup ids
        /\ \A i \in DOMAIN current :
             detected.updated[current[i].id] =
               [balance |-> current[i].balance, balance_date |-> current[i].balance_date]
        /\ \A id \in DOMAIN old \ ids : detected.updated[id] = old[id]
        /\ cache = read_cache(fileAtStart).cache

C10_Witness ==
  /\ detected_done
  /\ \E id \in DOMAIN accounts_of(cache) : id \notin {current[i].id : i \in DOMAIN current}
  /\ \E i \in DOMAIN current : current[i].id \notin DOMAIN accounts_of(cache)

\* the summary call has returned the terminal error of exhausted retries
summary_exhausted ==
  /\ pc = "Summarizing" /\ llm_pc = "returned"
  /\ ~llm_result.ok /\ llm_result.err = "Max retries reached"

\* C11: a run whose summary generation ended in the terminal error (retries
\* exhausted) is reported as failed: the step that leaves the summary stage
\* ends the run as a failure, the dispatcher is not invoked and no channel
\* receives a message.
C11_SummaryFailureFailsRun ==
  [][summary_exhausted =>
       /\ pc' = "Failed" /\ outcome'.exit = "Err"
       /\ d_pc' = "idle" /\ chanLog' = <<>> /\ sendLog' = sendLog]_vars

\* change detection has run in the current run
detection_done ==
  /\ runs >= 1
  /\ pc \notin {"Idle", "Started", "Validated", "Fetched"}
  /\ outcome.stage \notin {"ValidationError", "FetchError"}

\* the fetched accounts whose balance timestamp is older than the threshold
stale_fetched == SelectSeq(fetched, LAMBDA acc : now - acc.balance_date > cooldown_window)

\* C12: once detection has run, one warning per stale fetched account has been
\* posted to the push channel's <topic>-warning topic, before anything else
\* of the run and whatever the cooldown state; no other post goes there.
C12_StaleWarning ==
  (detection_done /\ settings.ntfy.ntfy_topic # None) =>
    /\ Len(sendLog) >= Len(stale_fetched)
    /\ \A i \in 1..Len(stale_fetched) :
         /\ sendLog[i].ch = "Ntfy"
         /\ sendLog[i].to = [server |-> "https://ntfy.sh",
                             topic  |-> settings.ntfy.ntfy_topic,
                             suffix |-> "-warning"]
    /\ \A i \in DOMAIN sendLog : i > Len(stale_fetched) => ~is_warning(sendLog[i])

C12_Witness ==
  /\ pc = "Failed" /\ outcome.stage = "TooSoon"
  /\ stale_fetched # <<>>
  /\ is_warning(sendLog[1])

\* channel ch lacks a setting it requires
unconfigured(ch) ==
  IF ch = "Ntfy" THEN settings.ntfy.ntfy_topic = None
  ELSE IF ch = "Email"
    THEN \/ settings.mailer.mailer_to = None
         \/ settings.mailer.mailer_url = None
         \/ settings.mailer.mailer_from = None
  ELSE \/ settings.twilio.twilio_to_phones = NoPhones
       \/ settings.twilio.twilio_account_sid = None
       \/ settings.twilio.twilio_auth_token = None
       \/ settings.twilio.twilio_from_phone = None

\* C13: a requested channel that is not configured is skipped: its send is not
\* invoked, it is recorded as Skipped, it does not fail the dispatch, and the
\* loop continues with the next requested channel.
C13_UnconfiguredSkipped ==
  \A j \in DOMAIN chanLog :
    unconfigured(chanLog[j].ch) =>
      /\ chanLog[j].res = "Skipped"
      /\ \A i \in DOMAIN sendLog : sendLog[i].ch # chanLog[j].ch
      /\ j = Len(chanLog) =>
           /\ d_result # "Err"
           /\ j < Len(notification_types) => d_pc = "loop" /\ d_idx = j + 1
           /\ j = Len(notification_types) => d_pc = "returned" /\ d_result = "Ok"

C13_Witness ==
  \E j \in DOMAIN chanLog :
    /\ unconfigured(chanLog[j].ch) /\ chanLog[j].res = "Skipped"
    /\ j < Len(chanLog) /\ chanLog[j + 1].res = "Sent"

\* the SMS submissions of the log, in order
sms_sends == SelectSeq(sendLog, LAMBDA e : e.ch = "Sms")

\* C14: once the configured SMS channel has been processed, one send to every
\* recipient of twilio_to_phones has been attempted, in order, whatever the
\* outcome of the sends to earlier recipients.
C14_SmsFanOut ==
  \A j \in DOMAIN chanLog :
    (chanLog[j].ch = "Sms" /\ chanLog[j].res \in {"Sent", "Failed"}) =>
      /\ Len(sms_sends) = Len(settings.twilio.twilio_to_phones)
      /\ \A i \in DOMAIN sms_sends : sms_sends[i].to = settings.twilio.twilio_to_phones[i]

\* C15: an attempt whose response has a non-success HTTP status is a failed
\* attempt whatever its body: a summary is returned only from a response with
\* a success status.
C15_NonSuccessStatusFails ==
  (llm_pc = "returned" /\ llm_result.ok) => llm_result.status = 200

\* C16: when detection reports no changed account, the run ends successfully
\* as NoChange without a summary call, without invoking the dispatcher and
\* without writing the cache.
C16_NoChangePath ==
  (detection_done /\ ~detected.changed) =>
    /\ pc = "Done" /\ outcome = [stage |-> "NoChange", exit |-> "Ok"]
    /\ llm_pc = "idle" /\ netCalls = 0
    /\ d_pc = "idle" /\ chanLog = <<>>
    /\ writes = 0 /\ file = fileAtStart

C16_Witness ==
  /\ outcome.stage = "NoChange" /\ outcome.exit = "Ok"
  /\ runs = 2 /\ fetched # <<>> /\ accounts_of(cache) # EmptyMap

\* the steps of one run, and the start of the next run
StageEdges ==
  {<<"Started", "Validated">>, <<"Started", "Failed">>,
   <<"Validated", "Fetched">>, <<"Validated", "Failed">>,
   <<"Fetched", "Changed">>, <<"Fetched", "Done">>,
   <<"Changed", "Summarizing">>, <<"Changed", "Failed">>,
   <<"Summarizing", "Dispatching">>, <<"Summarizing", "Done">>,
   <<"Dispatching", "Dispatched">>,
   <<"Dispatched", "Writing">>, <<"Dispatched", "Failed">>,
   <<"Writing", "Done">>, <<"Writing", "Failed">>,
   <<"Idle", "Started">>, <<"Done", "Started">>, <<"Failed", "Started">>}

\* C17: within a run the stages occur only in the order fetch, detection,
\* cooldown check, summary, dispatch, write-back, each at most once (the order
\* has no cycle inside a run); the summary is requested only after a change
\* was detected outside the cooldown window, the dispatcher is entered only
\* with the text of a summary that returned successfully, and the cache is
\* written at most once, after the dispatcher returned.
C17_StageOrder ==
  [][/\ pc' # pc => <<pc, pc'>> \in StageEdges
     /\ (llm_pc = "idle" /\ llm_pc' # "idle") =>
          pc = "Changed" /\ detected.changed /\ ~within_window
     /\ netCalls' > netCalls => pc = "Summarizing" /\ d_pc = "idle"
     /\ (d_pc = "idle" /\ d_pc' # "idle") =>
          /\ pc = "Summarizing" /\ llm_pc = "returned" /\ llm_result.ok
          /\ d_summary' = llm_result.text
     /\ (Len(chanLog') > Len(chanLog)) => pc = "Dispatching" /\ writes = 0
     /\ (writes' > writes) => writes = 0 /\ pc = "Dispatched" /\ d_pc = "returned"
    ]_vars

C17_Witness ==
  /\ outcome.stage = "Persisted" /\ runs = 1 /\ writes = 1
  /\ Len(chanLog) = Len(notification_types)

\* C18: dispatch_notifications never raises: whatever the configuration and
\* the send outcomes it returns normally, with exactly one result per
\* requested channel, in the order of the request.
C18_DispatchNeverRaises ==
  d_pc = "returned" =>
    /\ d_result = "Ok"
    /\ Len(chanLog) = Len(notification_types)
    /\ \A i \in DOMAIN chanLog : chanLog[i].ch = notification_types[i]

\* the run has ended after the dispatcher was invoked
ended_after_dispatch == d_pc = "returned" /\ pc \in {"Done", "Failed"}

\* the cache file holds the updated account map and this run's time
persisted_this_run ==
  /\ file.state = "written"
  /\ file.doc.last_successful_message = Some(now)
  /\ file.doc.accounts # NoneOpt
  /\ from_reader(file.doc).accounts = Some(detected.updated)

C20_FetchErrorFatal ==
  outcome.stage = "FetchError" =>
    /\ pc = "Failed" /\ outcome.exit = "Err"
    /\ fetched = <<>> /\ detected = NoDetection
    /\ llm_pc = "idle" /\ netCalls = 0
    /\ d_pc = "idle" /\ chanLog = <<>> /\ sendLog = <<>>
    /\ writes = 0 /\ file = fileAtStart

C20_Witness ==
  /\ pc = "Failed" /\ outcome.stage = "FetchError"
  /\ runs = 2 /\ file.state = "written"

\* a billing period that starts after its end or spans more than 90 days
malformed(p) == p[1] > p[2] \/ p[2] - p[1] > 90

\* the run is past the validation of its billing period
validation_done == runs >= 1 /\ pc \notin {"Idle", "Started"}

\* C21: a run with a malformed billing period ends with ValidationError before
\* the bridge is called: nothing is fetched, no summary is requested, nothing
\* is dispatched or sent, and the cache is not written.
C21_ValidationBeforeFetch ==
  (validation_done /\ malformed(period)) =>
    /\ pc = "Failed" /\ outcome = [stage |-> "ValidationError", exit |-> "Err"]
    /\ fetched = <<>> /\ detected = NoDetection
    /\ llm_pc = "idle" /\ netCalls = 0
    /\ d_pc = "idle" /\ chanLog = <<>> /\ sendLog = <<>>
    /\ writes = 0 /\ file = fileAtStart

C21_Witness ==
  /\ validation_done /\ malformed(period)
  /\ outcome.stage = "ValidationError"
  /\ runs = 2 /\ file.state = "written"

\* C22: validate_billing_period(start, end) is Ok exactly when start <= end
\* and end - start <= 90 days, and a validation error otherwise; the run then
\* goes on exactly for the accepted periods.
C22_ValidateBillingPeriod ==
  /\ (validate_billing_period(period[1], period[2]) = "Ok")
       <=> (period[1] <= period[2] /\ period[2] - period[1] <= 90)
  /\ validation_done =>
       /\ pc = "Validated" <=> (period[1] <= period[2] /\ period[2] - period[1] <= 90)
       /\ pc = "Failed" <=> (period[1] > period[2] \/ period[2] - period[1] >= 91)
       /\ pc = "Failed" => outcome = [stage |-> "ValidationError", exit |-> "Err"]

C22_Witness ==
  /\ pc = "Validated"
  /\ period[2] - period[1] = 90

\* channel ch has a required setting that is present but is the empty string
empty_setting(ch) ==
  IF ch = "Ntfy" THEN settings.ntfy.ntfy_topic = ""
  ELSE IF ch = "Email"
    THEN \/ settings.mailer.mailer_to = ""
         \/ settings.mailer.mailer_url = ""
         \/ settings.mailer.mailer_from = ""
  ELSE \/ settings.twilio.twilio_to_phones = <<"">>
       \/ settings.twilio.twilio_account_sid = ""
       \/ settings.twilio.twilio_auth_token = ""
       \/ settings.twilio.twilio_from_phone = ""

\* C23: a channel with a required setting that is the empty string counts as
\* unconfigured: it is recorded as Skipped and its send is not invoked.
C23_EmptySettingUnconfigured ==
  \A j \in DOMAIN chanLog :
    empty_setting(chanLog[j].ch) =>
      /\ chanLog[j].res = "Skipped"
      /\ \A i \in DOMAIN sendLog : sendLog[i].ch # chanLog[j].ch

\* fetched account acc is new, or has a new timestamp, with respect to the cache
new_or_newer(acc) ==
  \/ acc.id \notin DOMAIN accounts_of(cache)
  \/ accounts_of(cache)[acc.id].balance_date # acc.balance_date

\* C24: zero-balance accounts never make a run Changed: a change is reported
\* only for a fetched account with a non-zero balance, and a fetch in which
\* only zero-balance accounts are new or newer ends as NoChange, with no
\* summary request and no dispatch; a zero-balance account does not enter the
\* updated map.
C24_ZeroBalanceFiltered ==
  detected_done =>
    /\ detected.changed =>
         \E i \in DOMAIN fetched : fetched[i].balance # 0 /\ new_or_newer(fetched[i])
    /\ (\A i \in DOMAIN fetched : new_or_newer(fetched[i]) => fetched[i].balance = 0) =>
         /\ pc = "Done" /\ outcome = [stage |-> "NoChange", exit |-> "Ok"]
         /\ llm_pc = "idle" /\ d_pc = "idle" /\ chanLog = <<>>
    /\ \A i \in DOMAIN fetched :
         (fetched[i].balance = 0 /\ fetched[i].id \notin DOMAIN accounts_of(cache))
           => fetched[i].id \notin DOMAIN detected.updated

C24_Witness ==
  /\ detected_done /\ outcome.stage = "NoChange"
  /\ \E i \in DOMAIN fetched : fetched[i].balance = 0 /\ new_or_newer(fetched[i])
  /\ \E i \in DOMAIN fetched : fetched[i].balance # 0

\* the posts of the log to the push channel that carry the out-of-band
\* warning text, and those that carry a summary
warning_post(e) == e.ch = "Ntfy" /\ e.body = "warning"

summary_post(e) == e.ch = "Ntfy" /\ e.body \in Texts

\* C25: a summary is posted to {server}/{topic} and never to the warning
\* topic; an out-of-band warning is posted to {server}/{topic}-warning and
\* never to the normal topic.
C25_TopicSelection ==
  \A i \in DOMAIN sendLog :
    /\ summary_post(sendLog[i]) =>
         sendLog[i].to = [server |-> "https://ntfy.sh", topic |-> settings.ntfy.ntfy_topic,
                          suffix |-> ""]
    /\ warning_post(sendLog[i]) =>
         sendLog[i].to = [server |-> "https://ntfy.sh", topic |-> settings.ntfy.ntfy_topic,
                          suffix |-> "-warning"]

C25_Witness ==
  /\ \E i \in DOMAIN sendLog : summary_post(sendLog[i])
  /\ \E i \in DOMAIN sendLog : warning_post(sendLog[i])

\* a stale-account warning of this run failed to be sent
warning_failed == \E i \in DOMAIN sendLog : warning_post(sendLog[i]) /\ ~sendLog[i].ok

\* the run is past the Fetched state
past_fetched ==
  /\ runs >= 1
  /\ pc \notin {"Idle", "Started", "Validated", "Fetched"}
  /\ outcome.stage \notin {"ValidationError", "FetchError"}

\* C26: a failed stale-account warning does not abort the run: detection has
\* run on the fetched accounts, and the run is where the main flow takes it:
\* NoChange when nothing changed, TooSoon within the cooldown window, and
\* otherwise on its way through summary, dispatch and write-back.
C26_WarningFailureNotFatal ==
  (past_fetched /\ warning_failed) =>
    /\ detected = detect(cache, nonzero(fetched))
    /\ ~detected.changed => pc = "Done" /\ outcome.stage = "NoChange"
    /\ (detected.changed /\ within_window) =>
         pc \in {"Changed", "Failed"} /\ outcome.stage \in {"running", "TooSoon"}
    /\ (detected.changed /\ ~within_window) =>
         outcome.stage \in {"running", "SummaryFailed", "Persisted", "CacheError"}

C26_Witness ==
  /\ warning_failed
  /\ pc = "Done" /\ outcome.stage = "Persisted"

\* the cache file could not be read when this run started
read_failed_at_start == runs >= 1 /\ pc # "Idle" /\ fileAtStart.state = "truncated"

\* C27: a run whose cache read failed works from no prior state: it is not
\* ended by the read failure, every fetched non-zero-balance account is
\* classified as changed, and the run ends NoChange only when no such account
\* was fetched.
C27_ReadFailureDegrades ==
  read_failed_at_start =>
    /\ cache = DefaultCache
    /\ outcome.stage # "CacheReadError"
    /\ past_fetched =>
         /\ \A i \in DOMAIN current : is_changed(accounts_of(cache), current[i])
         /\ detected.changed <=> current # <<>>
         /\ outcome.stage = "NoChange" <=> current = <<>>

C27_Witness ==
  /\ read_failed_at_start /\ past_fetched
  /\ detected.changed /\ current # <<>>

\* C28: once write_cache has been called in a run, at every later point of it
\* (between its two steps and after either of them failed included) a read of
\* the cache file succeeds and yields either the file the run started from or
\* the complete new cache.
C28_AtomicWriteBack ==
  (runs >= 1 /\ writes > 0) =>
    /\ read_cache(file).ok
    /\ file = fileAtStart \/ file.doc = to_writer(new_cache)

\* C29: a run that ended Persisted wrote exactly one record, which reads back
\* as the account map detection returned for this run together with this
\* run's time as last notification time; a run calls write_cache at most once,
\* and the cache file differs from the one the run started from only after the
\* run itself has called write_cache, past dispatch.
C29_PersistedRecord ==
  /\ writes <= 1
  /\ file # fileAtStart => writes = 1 /\ pc \in {"Writing", "Done", "Failed"}
  /\ outcome.stage = "Persisted" =>
       /\ writes = 1 /\ pc = "Done"
       /\ read_cache(file) =
            [ok |-> TRUE,
             cache |-> [accounts |-> Some(detected.updated),
                        last_successful_message |-> Some(now)]]

C29_Witness ==
  /\ outcome.stage = "Persisted" /\ runs = 2
  /\ fileAtStart.state = "written"
  /\ file # fileAtStart
  /\ detected.updated # accounts_of(read_cache(fileAtStart).cache)

\* the addresses a mailer_to value configures
recipients(to) ==
  IF to = None \/ to = "" THEN {}
  ELSE IF to = TwoRecipients THEN {"r1", "r2"}
  ELSE {to}

\* the email submissions of the log, in order
email_sends == SelectSeq(sendLog, LAMBDA e : e.ch = "Email")

\* C30: once the email channel, with every mailer setting present and
\* non-empty, has been processed, exactly one message carrying the summary has
\* been submitted to each configured recipient.
C30_EmailFanOut ==
  \A j \in DOMAIN chanLog :
    (chanLog[j].ch = "Email" /\ ~unconfigured("Email") /\ ~empty_setting("Email")) =>
      /\ Len(email_sends) = Cardinality(recipients(settings.mailer.mailer_to))
      /\ \A r \in recipients(settings.mailer.mailer_to) :
           \E i \in DOMAIN email_sends :
             email_sends[i].to = r /\ email_sends[i].body = d_summary

\* the smaller of two naturals
min(a, b) == IF a < b THEN a ELSE b

\* C31: sleeps happen only between attempts.  After f failed attempts
\* min(f, max_retries - 1) sleeps have been performed: while the loop goes on
\* every failed attempt was followed by one sleep, the attempt that succeeds
\* adds none, and the failed attempt numbered max_retries returns the terminal
\* error without a sleep.
C31_SleepOnlyBetweenAttempts ==
  /\ Len(sleeps) = min(failures, max_retries - 1)
  /\ netCalls <= Len(sleeps) + 1
  /\ llm_pc = "loop" => netCalls = Len(sleeps)
  /\ (llm_pc = "returned" /\ llm_result.err = "Max retries reached") =>
       failures = max_retries /\ Len(sleeps) = max_retries - 1

C31_Witness ==
  /\ llm_pc = "returned" /\ llm_result.err = "Max retries reached"
  /\ failures = max_retries /\ Len(sleeps) = max_retries - 1
  /\ netCalls = Len(sleeps) + 1

\* C32: no doubling of delay_ms overflows the u64: every delay slept doubles
\* without a carry out of bit 63, the delay slept next is exactly that double,
\* and so is the value delay_ms holds after the last sleep.
C32_DelayNeverOverflows ==
  /\ \A n \in DOMAIN sleeps : ~U64DoubleOverflows(sleeps[n])
  /\ \A n \in DOMAIN sleeps :
       n < Len(sleeps) => sleeps[n + 1] = U64Double(sleeps[n])
  /\ sleeps # <<>> => delay_ms = U64Double(sleeps[Len(sleeps)])
  /\ ~U64DoubleOverflows(delay_ms)

C32_Witness ==
  /\ Len(sleeps) = max_retries - 1
  /\ delay_ms = U64Double(sleeps[max_retries - 1])
  /\ delay_ms[4] > 0

\* the run started with no cache file and has gone through change detection
first_run_detected == fileAtStart.state = "absent" /\ detection_done

\* C33 as stated: with no cache file, read_cache returns the default cache
\* without error, every fetched account is classified as changed, and the
\* cooldown check never reports TooSoon.
C33_FirstRun_AsStated ==
  first_run_detected =>
    /\ read_cache(fileAtStart) = [ok |-> TRUE, cache |-> DefaultCache]
    /\ cache = DefaultCache
    /\ \A i \in DOMAIN fetched : fetched[i].id \in DOMAIN detected.updated
    /\ fetched # <<>> => detected.changed
    /\ outcome.stage # "TooSoon"

\* C33 amended: with no cache file, read_cache returns the default cache
\* without error, every fetched account with a non-zero balance is classified
\* as changed (the zero-balance accounts are filtered out before detection),
\* and the cooldown check never reports TooSoon: a run that detected a change
\* goes on to the summary.
C33_FirstRun ==
  first_run_detected =>
    /\ read_cache(fileAtStart) = [ok |-> TRUE, cache |-> DefaultCache]
    /\ cache = DefaultCache
    /\ \A i \in DOMAIN current :
         /\ is_changed(accounts_of(cache), current[i])
         /\ current[i].id \in DOMAIN detected.updated
    /\ current # <<>> <=> detected.changed
    /\ outcome.stage # "TooSoon"
    /\ pc = "Changed" => ENABLED cooldown_proceed /\ ~ENABLED cooldown_too_soon

C33_Witness ==
  /\ first_run_detected /\ runs = 1
  /\ current # <<>> /\ detected.changed
  /\ pc = "Summarizing"

\* the last call of write_cache(&cache) succeeded
stored == pc = "CacheStore" /\ outcome.stage = "Persisted"

retry_after_failure ==
  /\ runs >= 2
  /\ prev.outcome.stage \in {"TooSoon", "SummaryFailed"}
  /\ prev.detected.changed
  /\ detection_done
  /\ fetched = prev.fetched

\* this run has ended after it entered the dispatcher
ended_past_dispatch == pc \in {"Done", "Failed"} /\ d_pc # "idle"

run_ended == pc \in {"Done", "Failed"}

\* the entries of the channel log for channel ch
channel_results(ch) == SelectSeq(chanLog, LAMBDA e : e.ch = ch)

\* C36: every run terminates.  Whatever the collaborators answer, the run
\* reaches Done or Failed and stays there; it issues at most max_retries
\* summary calls, and every requested channel is processed at most once, with
\* at most one send per recipient of that channel.
C36_RunTerminates ==
  /\ [](/\ netCalls <= max_retries
        /\ \A ch \in NotificationType : Len(channel_results(ch)) <= 1
        /\ Len(chanLog) <= Len(notification_types)
        /\ Len(sms_sends) <= Len(settings.twilio.twilio_to_phones)
        /\ Len(email_sends) <= 1
        /\ Len(SelectSeq(sendLog, summary_post)) <= 1
        /\ run_ended => ~ENABLED NextRun)
  /\ <>[]run_ended

C36_Witness ==
  /\ run_ended /\ outcome.stage = "Persisted"
  /\ Len(chanLog) = Len(notification_types)
  /\ fileAtStart.state = "written"

\* C37: the billing period calculate_date_range computes for a run without an
\* explicit start and end date satisfies start <= end and end - start <= 90
\* days, whatever today's date.
C37_ComputedRangeInvariant ==
  pc = "Started" =>
    /\ period[1] <= period[2]
    /\ period[2] - period[1] <= 90

\* C38: the transactions table holds at most one row per bridge transaction
\* id, and a bridge transaction that was stored is found again by its id, so
\* that a second from_bridge updates its row.
C38_SyncIdempotent ==
  /\ \A r1, r2 \in db.transactions : r1.src = r2.src => r1 = r2
  /\ \A r \in db.transactions : find_by_id(db.transactions, r.src) = {r}

\* the from_bridge calls of a run over accounts that meets no error, in order
sync_plan(accounts) ==
  LET calls(i) ==
        <<[call |-> "org", i |-> i, j |-> 0], [call |-> "account", i |-> i, j |-> 0]>>
        \o [j \in 1..Len(txns_of(accounts[i])) |-> [call |-> "txn", i |-> i, j |-> j]]
      RECURSIVE From(_)
      From(i) == IF i > Len(accounts) THEN <<>> ELSE calls(i) \o From(i + 1)
  IN  From(1)

\* C39: the calls of a run are a prefix of organization, account, then that
\* account's transactions, account by account; a stored account references a
\* stored organization and a stored transaction a stored account; a call that
\* fails is the last call of the run.
C39_SyncOrder ==
  /\ Len(s_log) <= Len(sync_plan(s_accounts))
  /\ \A k \in DOMAIN s_log :
       /\ s_log[k].call = sync_plan(s_accounts)[k].call
       /\ s_log[k].i = sync_plan(s_accounts)[k].i
       /\ s_log[k].j = sync_plan(s_accounts)[k].j
       /\ ~s_log[k].ok => k = Len(s_log) /\ s_pc = "failed"
  /\ s_pc = "failed" => s_log # <<>> /\ ~s_log[Len(s_log)].ok
  /\ s_pc = "done" => Len(s_log) = Len(sync_plan(s_accounts))
  /\ \A a \in db.accounts : a.organization_id \in db.organizations
  /\ \A t \in db.transactions : t.account_id \in {a.id : a \in db.accounts}

C39_Witness ==
  /\ s_pc = "failed" /\ Len(s_accounts) = 2
  /\ s_log[Len(s_log)].call = "org" /\ s_log[Len(s_log)].i = 2
  /\ db.transactions # {} /\ db.accounts # {}

\* the entries with key k among the entries to_query_string produced
entries_with(k) == SelectSeq(q_result[1].params, LAMBDA e : e.key = k)

\* the entries expected for an optional date under key k
date_entries(k, d) ==
  IF d = NoneOpt THEN <<>> ELSE <<[key |-> k, value |-> ToString(d[1])]>>

\* the entries expected for an optional flag under key k
flag_entries(k, b) ==
  IF b = Some(TRUE) THEN <<[key |-> k, value |-> "1"]>> ELSE <<>>

\* C40: to_query_string emits one start-date and one end-date entry when set,
\* one account entry per requested id in order, pending=1 and balances-only=1
\* only for Some(true), nothing else, and the empty string when no parameter
\* is set.
C40_QueryString ==
  q_result # NoneOpt =>
    /\ entries_with("start-date") = date_entries("start-date", q_params.start_date)
    /\ entries_with("end-date") = date_entries("end-date", q_params.end_date)
    /\ entries_with("pending") = flag_entries("pending", q_params.pending)
    /\ entries_with("balances-only") = flag_entries("balances-only", q_params.balances_only)
    /\ LET ids == IF q_params.account_ids = NoneOpt THEN <<>> ELSE q_params.account_ids[1]
       IN  entries_with("account") = [i \in DOMAIN ids |-> [key |-> "account", value |-> ids[i]]]
    /\ \A i \in DOMAIN q_result[1].params :
         q_result[1].params[i].key \in
           {"start-date", "end-date", "pending", "account", "balances-only"}
    /\ q_result[1].params = <<>> <=> q_result[1].query = ""
    /\ q_params = NoParams => q_result[1].query = ""

C40_Witness ==
  /\ q_result # NoneOpt
  /\ q_params.pending = Some(FALSE) /\ q_params.balances_only = Some(TRUE)
  /\ q_params.account_ids = Some(<<"123", "456">>)
  /\ q_result[1].query = "start-date=1577836800&account=123&account=456&balances-only=1"

====
